---- MODULE Spec2Model ----
(***************************************************************************)
(* Mechanica: a local dictionary of mechanical-engineering terms.          *)
(*   src/server.js          schema discovery, term repository (SQLite)     *)
(*   src/unnamed/part_000   browser front end: list, search, detail pane,  *)
(*                          math rendering, pronunciation playback         *)
(*                                                                         *)
(* Strings are sequences of one-character strings.  A few multi-character  *)
(* strings stand for a fixed piece of text that no other character of the  *)
(* model's alphabets can overlap with (a placeholder comment, a tag).      *)
(***************************************************************************)
EXTENDS Integers, Sequences, FiniteSets, TLC

VARIABLES
    \* ---- server.js ----
    store,          \* the SQLite file: the tables and their declared columns
    env,            \* process.env: DB_TABLE, DB_WORD_COL, ...
    startup,        \* "boot" | "serving" | "exited"
    META,           \* the schema binding
    rows,           \* the rows of the dictionary table (w, m, a)
    search,         \* the argument of a fetchWords call
    words,          \* what that call returned
    \* ---- part_000: formatMeaning ----
    meaning,        \* the argument of a formatMeaning call
    plan,           \* content, replacements and html of that call
    \* ---- part_000: the page ----
    currentWord,    \* let currentWord
    detailEl,       \* what #detail shows
    detailFetches,  \* selectWord calls awaiting their fetch
    wordListEl,     \* the children of #wordList
    listFetches,    \* loadWords calls awaiting their fetch
    searchInput,    \* searchInput.value
    clearShown,     \* clearSearchBtn.style.display = 'block'
    timers,         \* the browser's pending setTimeout callbacks of the debounce
    debounceTimer,  \* let debounceTimer
    lastLoad,       \* the loadWords call started last, and how it ended
    players,        \* one entry per click on #playBtn: the closure's state
    calls,          \* how many selectWord / loadWords / setTimeout / play calls were made
    pc              \* position of the call of a pure function

vars == << store, env, startup, META, rows, search, words, meaning, plan,
           currentWord, detailEl, detailFetches, wordListEl, listFetches,
           searchInput, clearShown, timers, debounceTimer, lastLoad, players,
           calls, pc >>

serverVars == << store, env, startup, META >>
wordsVars  == << search, words >>
renderVars == << meaning, plan >>
pageVars   == << currentWord, detailEl, detailFetches, wordListEl, listFetches,
                 searchInput, clearShown, timers, debounceTimer, lastLoad,
                 players, calls >>

----------------------------------------------------------------------------
(* Strings *)

\* JavaScript undefined and null, SQL NULL
Undefined == "<undefined>"
Null == "<null>"
NULL == << "<NULL>" >>

RECURSIVE StringsUpTo(_, _)
StringsUpTo(alphabet, n) ==
    IF n = 0 THEN { << >> }
    ELSE LET shorter == StringsUpTo(alphabet, n - 1)
         IN  shorter \cup { Append(s, c) : s \in shorter, c \in alphabet }

RECURSIVE Concat(_)
Concat(ss) == IF ss = << >> THEN << >> ELSE Head(ss) \o Concat(Tail(ss))

Whitespace == { " ", "\n", "\t" }

RECURSIVE TrimStart(_)
TrimStart(s) ==
    IF s # << >> /\ Head(s) \in Whitespace THEN TrimStart(Tail(s)) ELSE s

RECURSIVE TrimEnd(_)
TrimEnd(s) ==
    IF s # << >> /\ s[Len(s)] \in Whitespace
    THEN TrimEnd(SubSeq(s, 1, Len(s) - 1))
    ELSE s

\* String.prototype.trim
Trim(s) == TrimEnd(TrimStart(s))

\* String.prototype.toLowerCase and SQLite's ASCII case folding
ToLower(c) == IF c = "A" THEN "a" ELSE IF c = "B" THEN "b" ELSE c

toLowerCase(s) == [ i \in 1..Len(s) |-> ToLower(s[i]) ]

----------------------------------------------------------------------------
(* server.js: schema discovery and the startup binding *)

\* Bounds of the stores and queries that are enumerated
MaxCols == 4
MaxTermLen == 3
MaxQueryLen == 2

\* Table names in the order of ORDER BY name (binary collation)
TableNames == << "dict", "mech", "sqlite_sequence" >>

NameRank(name) == CHOOSE i \in 1..Len(TableNames) : TableNames[i] = name

\* name LIKE 'sqlite_%'
IsSqliteInternal(name) == name = "sqlite_sequence"

\* Declared column names, by ordinal position
ColNames == << "word", "meaning", "audio", "wiki", "c5", "c6", "c7" >>

Columns(n) == SubSeq(ColNames, 1, n)

\* A store: any subset of the tables, each with 1..MaxCols columns
Stores ==
    LET Tables(name) == { {} } \cup { { [name |-> name, cols |-> Columns(n)] } : n \in 1..MaxCols }
    IN  { a \cup b \cup c :
            a \in Tables("dict"), b \in Tables("mech"),
            c \in { {}, { [name |-> "sqlite_sequence", cols |-> Columns(2)] } } }

Envs ==
    [ DB_TABLE       : { Undefined, "", "mech" },
      DB_WORD_COL    : { Undefined, "word" },
      DB_MEANING_COL : { Undefined, "meaning" },
      DB_AUDIO_COL   : { Undefined, "audio" },
      DB_WIKI_COL    : { Undefined, "wiki" } ]

\* JavaScript truthiness of an environment value
Truthy(v) == v # Undefined /\ v # Null /\ v # ""

NoMeta ==
    [ table |-> Undefined, wordCol |-> Undefined, meaningCol |-> Undefined,
      audioCol |-> Undefined, wikiCol |-> Undefined ]

\* function discoverSchema: { threw, meta }
discoverSchema(db) ==
    LET user == { t \in db : ~IsSqliteInternal(t.name) }
    IN  IF user = {} THEN [ threw |-> TRUE, meta |-> NoMeta ]
        ELSE LET tableRow == CHOOSE t \in user :
                                 \A u \in user : NameRank(t.name) <= NameRank(u.name)
                 cols == tableRow.cols
             IN  IF Len(cols) < 3 THEN [ threw |-> TRUE, meta |-> NoMeta ]
                 ELSE [ threw |-> FALSE,
                        meta  |-> [ table      |-> tableRow.name,
                                    wordCol    |-> cols[1],
                                    meaningCol |-> cols[2],
                                    audioCol   |-> cols[3],
                                    wikiCol    |-> IF Len(cols) >= 4 THEN cols[4] ELSE Null ] ]

\* the values of the environment taken as the binding
EnvMeta(e) ==
    [ table      |-> e.DB_TABLE,
      wordCol    |-> e.DB_WORD_COL,
      meaningCol |-> e.DB_MEANING_COL,
      audioCol   |-> e.DB_AUDIO_COL,
      wikiCol    |-> IF Truthy(e.DB_WIKI_COL) THEN e.DB_WIKI_COL ELSE Null ]

\* if (ENV_TABLE && ENV_WORD && ENV_MEANING && ENV_AUDIO)
EnvComplete(e) ==
    Truthy(e.DB_TABLE) /\ Truthy(e.DB_WORD_COL) /\ Truthy(e.DB_MEANING_COL) /\ Truthy(e.DB_AUDIO_COL)

\* let META; try { META = discoverSchema(); ... } catch { process.exit(1) }
Startup ==
    /\ startup = "boot"
    /\ LET d == discoverSchema(store)
       IN  IF d.threw
           THEN /\ startup' = "exited"
                /\ META' = META
           ELSE /\ startup' = "serving"
                /\ META' = IF EnvComplete(env) THEN EnvMeta(env) ELSE d.meta
    /\ UNCHANGED << store, env, rows, wordsVars, renderVars, pageVars, pc >>

----------------------------------------------------------------------------
(* server.js: the term repository *)

\* LIMIT 10000
LIMIT == 10000

Take(s, n) == IF Len(s) <= n THEN s ELSE SubSeq(s, 1, n)

\* The characters of terms and queries
TermAlphabet == { "a", "A", "%", "_", "\\" }

\* Byte values, for COLLATE NOCASE
CharCode(c) ==
    CASE c = "\t" -> 9  [] c = "\n" -> 10 [] c = " " -> 32 [] c = "%" -> 37
      [] c = "A" -> 65  [] c = "B" -> 66  [] c = "\\" -> 92 [] c = "_" -> 95
      [] c = "a" -> 97  [] c = "b" -> 98  [] OTHER -> 127

NocaseKey(c) == CharCode(ToLower(c))

\* Primary weights of the root collation, for localeCompare
LocaleKey(c) ==
    CASE c = "\t" -> 1 [] c = "\n" -> 2 [] c = " " -> 3 [] c = "_" -> 4
      [] c = "\\" -> 5 [] c = "%" -> 6 [] c = "a" -> 7 [] c = "A" -> 7
      [] c = "b" -> 8 [] c = "B" -> 8 [] OTHER -> 9

\* a < b, a = b, a > b as -1, 0, 1: character by character, a prefix first
RECURSIVE CompareNocase(_, _)
CompareNocase(a, b) ==
    IF a = << >> THEN (IF b = << >> THEN 0 ELSE -1)
    ELSE IF b = << >> THEN 1
    ELSE IF NocaseKey(Head(a)) < NocaseKey(Head(b)) THEN -1
    ELSE IF NocaseKey(Head(a)) > NocaseKey(Head(b)) THEN 1
    ELSE CompareNocase(Tail(a), Tail(b))

RECURSIVE localeCompare(_, _)
localeCompare(a, b) ==
    IF a = << >> THEN (IF b = << >> THEN 0 ELSE -1)
    ELSE IF b = << >> THEN 1
    ELSE IF LocaleKey(Head(a)) < LocaleKey(Head(b)) THEN -1
    ELSE IF LocaleKey(Head(a)) > LocaleKey(Head(b)) THEN 1
    ELSE localeCompare(Tail(a), Tail(b))

\* ORDER BY w COLLATE NOCASE ASC (NULL first), rows of equal key in rowid order
NocaseLe(a, b) ==
    IF a = NULL THEN TRUE ELSE IF b = NULL THEN FALSE ELSE CompareNocase(a, b) <= 0

RECURSIVE OrderByNocase(_)
OrderByNocase(ws) ==
    IF ws = << >> THEN << >>
    ELSE LET n == Len(ws)
             sorted == OrderByNocase(SubSeq(ws, 1, n - 1))
             k == Cardinality({ i \in 1..(n - 1) : NocaseLe(sorted[i], ws[n]) })
         IN  SubSeq(sorted, 1, k) \o << ws[n] >> \o SubSeq(sorted, k + 1, n - 1)

\* words.sort((a, b) => a.toLowerCase().localeCompare(b.toLowerCase())), a stable sort
RECURSIVE SortWords(_)
SortWords(ws) ==
    IF ws = << >> THEN << >>
    ELSE LET n == Len(ws)
             sorted == SortWords(SubSeq(ws, 1, n - 1))
             k == Cardinality({ i \in 1..(n - 1) :
                     localeCompare(toLowerCase(sorted[i]), toLowerCase(ws[n])) <= 0 })
         IN  SubSeq(sorted, 1, k) \o << ws[n] >> \o SubSeq(sorted, k + 1, n - 1)

\* SQLite's LIKE, patternCompare: % any run, _ any one character, the character
\* after the escape character literally, letters without regard to case
RECURSIVE LikeFrom(_, _, _, _, _)
LikeFrom(p, i, s, j, esc) ==
    IF i > Len(p) THEN j > Len(s)
    ELSE IF p[i] = "%" THEN \E k \in j..(Len(s) + 1) : LikeFrom(p, i + 1, s, k, esc)
    ELSE IF p[i] = esc
         THEN /\ i < Len(p)
              /\ j <= Len(s)
              /\ ToLower(p[i + 1]) = ToLower(s[j])
              /\ LikeFrom(p, i + 2, s, j + 1, esc)
    ELSE IF p[i] = "_" THEN j <= Len(s) /\ LikeFrom(p, i + 1, s, j + 1, esc)
    ELSE /\ j <= Len(s)
         /\ ToLower(p[i]) = ToLower(s[j])
         /\ LikeFrom(p, i + 1, s, j + 1, esc)

\* w LIKE pattern ESCAPE esc; NULL LIKE anything is NULL
Like(w, pattern, esc) == w # NULL /\ LikeFrom(pattern, 1, w, 1, esc)

\* a mistaken escapeLike: the character class without the backslash, /([%_])/g
escapeLikeNoBackslash(s) ==
    Concat([ i \in 1..Len(s) |-> IF s[i] \in { "%", "_" } THEN << "\\", s[i] >> ELSE << s[i] >> ])

\* function escapeLike: String(s).replace(/([%_\\])/g, '\\$1')
escapeLike(s) ==
    Concat([ i \in 1..Len(s) |-> IF s[i] \in { "%", "_", "\\" } THEN << "\\", s[i] >> ELSE << s[i] >> ])

Column(table, f) == [ i \in 1..Len(table) |-> table[i][f] ]

\* stmtSearchWords.all(pattern)
stmtSearchWords(table, pattern) ==
    LET Matches(w) == Like(w, pattern, "\\")
    IN  Take(OrderByNocase(SelectSeq(Column(table, "w"), Matches)), LIMIT)

\* stmtListWords.all()
stmtListWords(table) ==
    LET NotNull(w) == w # NULL
    IN  Take(OrderByNocase(SelectSeq(Column(table, "w"), NotNull)), LIMIT)

\* .filter(Boolean): NULL and the empty string are dropped
FilterBoolean(ws) ==
    LET Keep(w) == w # NULL /\ w # << >>
    IN  SelectSeq(ws, Keep)

\* function fetchWords
fetchWords(table, q) ==
    IF q # << >>
    THEN SortWords(FilterBoolean(stmtSearchWords(table, << "%" >> \o escapeLike(q) \o << "%" >>)))
    ELSE SortWords(FilterBoolean(stmtListWords(table)))

\* function fetchDetailByWord: the first row whose w equals word, or Null
HasWord(table, word) == \E i \in 1..Len(table) : table[i].w = word

fetchDetailByWord(table, word) ==
    LET i == CHOOSE k \in 1..Len(table) :
                 table[k].w = word /\ \A l \in 1..(k - 1) : table[l].w # word
    IN  [ word |-> table[i].w, meaning |-> table[i].m, audioUrl |-> table[i].a ]

\* app.get('/api/words'): q = (req.query.search || '').trim()
ApiWords(table, q) == fetchWords(table, Trim(q))

----------------------------------------------------------------------------
(* part_000: the page *)

\* Bounds on the calls made in one run
MaxLoads == 3
MaxTimers == 2
MaxSelects == 2
MaxPlays == 2

\* let currentWord = null
NullWord == << "<null>" >>

\* <li style="color:#f87171">...</li>, the error item of the list
ErrorLi == << "<li error>" >>

\* a lookup whose response has not arrived
Pending == << "<pending>" >>

\* The dictionary the page is served from
PageRows ==
    << [ w |-> << "a", "b" >>, m |-> << "m" >>, a |-> << "x", " ", " ", "y" >> ],
       [ w |-> << "b" >>,      m |-> << "m" >>, a |-> << "z" >> ],
       [ w |-> << "a" >>,      m |-> << "m" >>, a |-> NULL ] >>

\* What the user can bring the search box to hold
BoxValues == { << >>, << "a" >>, << "b" >>, << "a", " " >> }

\* loadWords(q): wordListEl.innerHTML = ''; fetch(url) ... up to the await
loadWords(q) ==
    /\ calls.load < MaxLoads
    /\ wordListEl' = << >>
    /\ listFetches' = listFetches \cup { [ id |-> calls.load + 1, q |-> q ] }
    /\ lastLoad' = [ id |-> calls.load + 1, q |-> q, box |-> searchInput', result |-> Pending ]

\* loadWords after the await: the items are appended, or the error item replaces the list
loadWordsResume(f, ok) ==
    /\ listFetches' = listFetches \ { f }
    /\ wordListEl' = IF ok THEN wordListEl \o ApiWords(rows, f.q) ELSE << ErrorLi >>
    /\ lastLoad' = IF f.id = lastLoad.id
                   THEN [ lastLoad EXCEPT !.result =
                            IF ok THEN ApiWords(rows, f.q) ELSE << ErrorLi >> ]
                   ELSE lastLoad
    /\ UNCHANGED << serverVars, rows, wordsVars, renderVars, pc, currentWord,
                    detailEl, detailFetches, searchInput, clearShown, timers,
                    debounceTimer, players, calls >>

\* the response of a list fetch arrives: 200 with the items, or a failure
ListResponse ==
    \E f \in listFetches :
        \/ loadWordsResume(f, TRUE)
        \/ loadWordsResume(f, FALSE)

\* searchInput 'input' listener
Input ==
    \E v \in BoxValues \ { searchInput } :
        /\ calls.timer < MaxTimers
        /\ searchInput' = v
        /\ clearShown' = (Len(v) > 0)
        /\ timers' = { t \in timers : t.id # debounceTimer }
                        \cup { [ id |-> calls.timer + 1, query |-> v ] }
        /\ debounceTimer' = calls.timer + 1
        /\ calls' = [ calls EXCEPT !.timer = @ + 1 ]
        /\ UNCHANGED << serverVars, rows, wordsVars, renderVars, pc, currentWord,
                        detailEl, detailFetches, wordListEl, listFetches, lastLoad,
                        players >>

\* the callback of the debounce: () => loadWords(query.trim())
TimerFire ==
    \E t \in timers :
        /\ timers' = timers \ { t }
        /\ UNCHANGED searchInput
        /\ loadWords(Trim(t.query))
        /\ calls' = [ calls EXCEPT !.load = @ + 1 ]
        /\ UNCHANGED << serverVars, rows, wordsVars, renderVars, pc, currentWord,
                        detailEl, detailFetches, clearShown, debounceTimer, players >>

\* clearSearchBtn 'click' listener
ClearClick ==
    /\ clearShown
    /\ searchInput' = << >>
    /\ loadWords(<< >>)
    /\ clearShown' = FALSE
    /\ calls' = [ calls EXCEPT !.load = @ + 1 ]
    /\ UNCHANGED << serverVars, rows, wordsVars, renderVars, pc, currentWord,
                    detailEl, detailFetches, timers, debounceTimer, players >>

\* the items of the list that carry a click listener
Items == { wordListEl[i] : i \in 1..Len(wordListEl) } \ { ErrorLi }

\* selectWord(word, li) up to the await
selectWord(word) ==
    /\ calls.select < MaxSelects
    /\ currentWord' = word
    /\ detailEl' = [ kind |-> "loading", word |-> NullWord, audioUrl |-> NULL ]
    /\ detailFetches' = detailFetches \cup { [ id |-> calls.select + 1, word |-> word ] }
    /\ calls' = [ calls EXCEPT !.select = @ + 1 ]

SelectWord ==
    \E word \in Items :
        /\ selectWord(word)
        /\ UNCHANGED << serverVars, rows, wordsVars, renderVars, pc, wordListEl,
                        listFetches, searchInput, clearShown, timers, debounceTimer,
                        lastLoad, players >>

\* renderDetail(data): the pane shows the record; #playBtn exists when audioUrl is truthy
renderDetail(data) ==
    [ kind |-> "detail", word |-> data.word, audioUrl |-> data.audioUrl ]

\* selectWord after the await: renderDetail(data), or the error placeholder
selectWordResume(f, ok) ==
    /\ detailFetches' = detailFetches \ { f }
    /\ detailEl' = IF ok /\ HasWord(rows, f.word)
                   THEN renderDetail(fetchDetailByWord(rows, f.word))
                   ELSE [ kind |-> "error", word |-> NullWord, audioUrl |-> NULL ]
    /\ UNCHANGED << serverVars, rows, wordsVars, renderVars, pc, currentWord,
                    wordListEl, listFetches, searchInput, clearShown, timers,
                    debounceTimer, lastLoad, players, calls >>

\* the response of a detail fetch arrives: 200 with the record, or a failure
DetailResponse ==
    \E f \in detailFetches :
        \/ selectWordResume(f, TRUE)
        \/ selectWordResume(f, FALSE)

----------------------------------------------------------------------------
(* part_000: pronunciation playback, the click listener of #playBtn *)

IndexOfWs(s) == CHOOSE i \in 1..Len(s) : s[i] \in Whitespace /\ \A k \in 1..(i - 1) : s[k] \notin Whitespace

\* String.prototype.split(/\s+/)
RECURSIVE SplitWs(_)
SplitWs(s) ==
    IF \A i \in 1..Len(s) : s[i] \notin Whitespace THEN << s >>
    ELSE LET i == IndexOfWs(s)
         IN  << SubSeq(s, 1, i - 1) >> \o SplitWs(TrimStart(SubSeq(s, i, Len(s))))

\* String(audioUrl).trim().split(/\s+/).filter(url => url.length > 0)
AudioUrls(audioUrl) ==
    LET NonEmpty(url) == Len(url) > 0
    IN  SelectSeq(SplitWs(Trim(audioUrl)), NonEmpty)

\* function playNext, on the closure p: a new Audio is played unless the index is past the end
playNext(p) ==
    IF p.currentIndex >= Len(p.audioUrls) THEN p
    ELSE [ p EXCEPT !.playing = TRUE,
                    !.log = Append(@, << "play", p.currentIndex >>) ]

\* #playBtn 'click' listener
ClickPlay ==
    /\ detailEl.kind = "detail"
    /\ detailEl.audioUrl # NULL /\ detailEl.audioUrl # << >>
    /\ Len(players) < MaxPlays
    /\ LET audioUrls == AudioUrls(detailEl.audioUrl)
       IN  players' = IF Len(audioUrls) = 0 THEN players
                      ELSE Append(players,
                               playNext([ audioUrls |-> audioUrls, currentIndex |-> 0,
                                          playing |-> FALSE, timer |-> FALSE, log |-> << >> ]))
    /\ UNCHANGED << serverVars, rows, wordsVars, renderVars, pc, currentWord, detailEl,
                    detailFetches, wordListEl, listFetches, searchInput, clearShown,
                    timers, debounceTimer, lastLoad, calls >>

\* a mistaken 'ended' listener: the index is not advanced
onEndedNoAdvance(p) ==
    [ p EXCEPT !.playing = FALSE, !.timer = TRUE,
               !.log = Append(@, << "ended", p.currentIndex >>) ]

\* audio 'ended' listener: currentIndex++; setTimeout(playNext, 200)
onEnded(p) ==
    [ p EXCEPT !.playing = FALSE, !.timer = TRUE,
               !.currentIndex = @ + 1,
               !.log = Append(@, << "ended", p.currentIndex >>) ]

\* audio 'error' listener: currentIndex++; playNext()
onError(p) ==
    playNext([ p EXCEPT !.playing = FALSE,
                        !.currentIndex = @ + 1,
                        !.log = Append(@, << "error", p.currentIndex >>) ])

AudioEnded ==
    \E i \in 1..Len(players) :
        /\ players[i].playing
        /\ players' = [ players EXCEPT ![i] = onEnded(@) ]
        /\ UNCHANGED << serverVars, rows, wordsVars, renderVars, pc, currentWord, detailEl,
                        detailFetches, wordListEl, listFetches, searchInput, clearShown,
                        timers, debounceTimer, lastLoad, calls >>

AudioError ==
    \E i \in 1..Len(players) :
        /\ players[i].playing
        /\ players' = [ players EXCEPT ![i] = onError(@) ]
        /\ UNCHANGED << serverVars, rows, wordsVars, renderVars, pc, currentWord, detailEl,
                        detailFetches, wordListEl, listFetches, searchInput, clearShown,
                        timers, debounceTimer, lastLoad, calls >>

\* the callback of setTimeout(playNext, 200)
PlayNextTimer ==
    \E i \in 1..Len(players) :
        /\ players[i].timer
        /\ players' = [ players EXCEPT ![i] = playNext([ @ EXCEPT !.timer = FALSE ]) ]
        /\ UNCHANGED << serverVars, rows, wordsVars, renderVars, pc, currentWord, detailEl,
                        detailFetches, wordListEl, listFetches, searchInput, clearShown,
                        timers, debounceTimer, lastLoad, calls >>

----------------------------------------------------------------------------
(* part_000: formatMeaning and the math elements renderDetail finds *)

MaxMeaningLen == 5

\* placeholder(i): the comment is one symbol; none of its characters is in an alphabet below
Placeholders ==
    << "<!--knt-math-p0-->", "<!--knt-math-p1-->", "<!--knt-math-p2-->",
       "<!--knt-math-p3-->", "<!--knt-math-p4-->", "<!--knt-math-p5-->" >>

placeholder(i) == Placeholders[i + 1]

PlaceholderSet == { Placeholders[i] : i \in 1..Len(Placeholders) }

\* the pieces of `<span data-math-placeholder="..." data-math-mode="..."></span>`
SpanOpen == "<span data-math-placeholder=\""
SpanCloseDisplay == "\" data-math-mode=\"display\"></span>"
SpanCloseInline == "\" data-math-mode=\"inline\"></span>"

\* '<em style="color:#9ca3af">(...)</em>', returned for an empty definition
NoDefinition == "<em>no definition</em>"

\* The characters of the definitions that are enumerated
MeaningAlphabet == { "$", "a", "'", " ", placeholder(0) }

\* "Force ($F$) equals mass times acceleration: $$F = ma$$"
Example ==
    << "F", "o", "r", "c", "e", " ", "(", "$", "F", "$", ")", " ", "e", "q",
       "u", "a", "l", "s", " ", "m", "a", "s", "s", " ", "t", "i", "m", "e",
       "s", " ", "a", "c", "c", "e", "l", "e", "r", "a", "t", "i", "o", "n",
       ":", " ", "$", "$", "F", " ", "=", " ", "m", "a", "$", "$" >>

Meanings == StringsUpTo(MeaningAlphabet, MaxMeaningLen) \cup { Example }

\* the character U+0060
GraveAccent == "U+0060"

\* function escapeAttribute
escapeAttribute(s) ==
    Concat([ i \in 1..Len(s) |->
        CASE s[i] = "\"" -> << "&", "q", "u", "o", "t", ";" >>
          [] s[i] = "'"  -> << "&", "#", "3", "9", ";" >>
          [] s[i] = GraveAccent -> << "&", "#", "9", "6", ";" >>
          [] s[i] = "<"  -> << "&", "l", "t", ";" >>
          [] s[i] = ">"  -> << "&", "g", "t", ";" >>
          [] OTHER      -> << s[i] >> ])

\* content.replace(/\$\$([\s\S]*?)\$\$/g, ...): rest is scanned, done is the output so far
RECURSIVE StashDisplay(_, _, _)
StashDisplay(rest, done, reps) ==
    IF rest = << >> THEN [ content |-> done, replacements |-> reps ]
    ELSE LET closers == { j \in 3..(Len(rest) - 1) : rest[j] = "$" /\ rest[j + 1] = "$" }
         IN  IF Len(rest) >= 4 /\ rest[1] = "$" /\ rest[2] = "$" /\ closers # {}
             THEN LET j == CHOOSE c \in closers : \A d \in closers : c <= d
                      id == Len(reps)
                  IN  StashDisplay(SubSeq(rest, j + 2, Len(rest)),
                                   Append(done, placeholder(id)),
                                   Append(reps, [ formula |-> Trim(SubSeq(rest, 3, j - 1)),
                                                  isDisplay |-> TRUE ]))
             ELSE StashDisplay(Tail(rest), Append(done, Head(rest)), reps)

\* content.replace(/\$([^\$]+?)\$/g, ...)
RECURSIVE StashInline(_, _, _)
StashInline(rest, done, reps) ==
    IF rest = << >> THEN [ content |-> done, replacements |-> reps ]
    ELSE LET closers == { j \in 3..Len(rest) : rest[j] = "$" }
         IN  IF Len(rest) >= 3 /\ rest[1] = "$" /\ rest[2] # "$" /\ closers # {}
             THEN LET j == CHOOSE c \in closers : \A d \in closers : c <= d
                      id == Len(reps)
                  IN  StashInline(SubSeq(rest, j + 1, Len(rest)),
                                  Append(done, placeholder(id)),
                                  Append(reps, [ formula |-> Trim(SubSeq(rest, 2, j - 1)),
                                                 isDisplay |-> FALSE ]))
             ELSE StashInline(Tail(rest), Append(done, Head(rest)), reps)

\* marked.parse(content, { breaks: true }): one paragraph, its text escaped, a
\* comment passed through
markedParse(content) ==
    << "<p>" >>
    \o Concat([ i \in 1..Len(content) |->
           CASE content[i] = "'" -> << "&", "#", "3", "9", ";" >>
             [] content[i] = "&" -> << "&", "a", "m", "p", ";" >>
             [] OTHER            -> << content[i] >> ])
    \o << "</p>\n" >>

\* The replacement patterns of String.prototype.replace(string, string): $$ is a
\* dollar and $& the matched text.  (The patterns for the text before and after the
\* match need a quote, which escapeAttribute has turned into an entity.)
RECURSIVE ExpandReplacement(_, _)
ExpandReplacement(repl, matched) ==
    IF repl = << >> THEN << >>
    ELSE IF Len(repl) >= 2 /\ repl[1] = "$" /\ repl[2] = "$"
         THEN << "$" >> \o ExpandReplacement(SubSeq(repl, 3, Len(repl)), matched)
    ELSE IF Len(repl) >= 2 /\ repl[1] = "$" /\ repl[2] = "&"
         THEN << matched >> \o ExpandReplacement(SubSeq(repl, 3, Len(repl)), matched)
    ELSE << Head(repl) >> \o ExpandReplacement(Tail(repl), matched)

\* html.replace(token, repl): the first occurrence only
ReplaceFirst(html, token, repl) ==
    LET at == { k \in 1..Len(html) : html[k] = token }
    IN  IF at = {} THEN html
        ELSE LET k == CHOOSE c \in at : \A d \in at : c <= d
             IN  SubSeq(html, 1, k - 1) \o ExpandReplacement(repl, token)
                     \o SubSeq(html, k + 1, Len(html))

placeholderHtml(rep) ==
    << SpanOpen >> \o escapeAttribute(rep.formula)
        \o << IF rep.isDisplay THEN SpanCloseDisplay ELSE SpanCloseInline >>

\* for (let i = 0; i < replacements.length; i++) html = html.replace(placeholder(i), ...)
RECURSIVE Restore(_, _, _)
Restore(html, reps, i) ==
    IF i >= Len(reps) THEN html
    ELSE Restore(ReplaceFirst(html, placeholder(i), placeholderHtml(reps[i + 1])), reps, i + 1)

\* a mistaken formatMeaning: the inline pass runs before the display pass
formatMeaningInlineFirst(s) ==
    IF s = << >>
    THEN [ content |-> << >>, replacements |-> << >>, html |-> << NoDefinition >> ]
    ELSE LET inline == StashInline(s, << >>, << >>)
             display == StashDisplay(inline.content, << >>, inline.replacements)
         IN  [ content      |-> display.content,
               replacements |-> display.replacements,
               html         |-> Restore(markedParse(display.content), display.replacements, 0) ]

\* function formatMeaning: the placeholder-bearing text, the segments, the html returned
formatMeaning(s) ==
    IF s = << >>
    THEN [ content |-> << >>, replacements |-> << >>, html |-> << NoDefinition >> ]
    ELSE LET display == StashDisplay(s, << >>, << >>)
             inline == StashInline(display.content, << >>, display.replacements)
         IN  [ content      |-> inline.content,
               replacements |-> inline.replacements,
               html         |-> Restore(markedParse(inline.content), inline.replacements, 0) ]

\* el.getAttribute: the character references of an attribute value are decoded
RECURSIVE DecodeAttribute(_)
DecodeAttribute(v) ==
    IF v = << >> THEN << >>
    ELSE IF Len(v) >= 5 /\ SubSeq(v, 1, 5) = << "&", "#", "3", "9", ";" >>
         THEN << "'" >> \o DecodeAttribute(SubSeq(v, 6, Len(v)))
    ELSE IF Len(v) >= 5 /\ SubSeq(v, 1, 5) = << "&", "a", "m", "p", ";" >>
         THEN << "&" >> \o DecodeAttribute(SubSeq(v, 6, Len(v)))
    ELSE << Head(v) >> \o DecodeAttribute(Tail(v))

\* detailEl.querySelectorAll('[data-math-placeholder]'), in document order: what
\* katex.render is given for each element
RECURSIVE MathElements(_)
MathElements(html) ==
    IF html = << >> THEN << >>
    ELSE LET closers == { j \in 2..Len(html) : html[j] \in { SpanCloseDisplay, SpanCloseInline } }
         IN  IF Head(html) = SpanOpen /\ closers # {}
             THEN LET j == CHOOSE c \in closers : \A d \in closers : c <= d
                  IN  << [ formula   |-> DecodeAttribute(SubSeq(html, 2, j - 1)),
                           isDisplay |-> html[j] = SpanCloseDisplay ] >>
                          \o MathElements(SubSeq(html, j + 1, Len(html)))
             ELSE MathElements(Tail(html))

NoPlan == [ content |-> << >>, replacements |-> << >>, html |-> << >> ]

\* one call of formatMeaning
FormatMeaning ==
    /\ pc = "render"
    /\ plan' = formatMeaning(meaning)
    /\ pc' = "rendered"
    /\ UNCHANGED << serverVars, rows, wordsVars, meaning, pageVars >>

\* one call of fetchWords
FetchWords ==
    /\ pc = "fetch"
    /\ words' = fetchWords(rows, search)
    /\ pc' = "fetched"
    /\ UNCHANGED << serverVars, rows, search, renderVars, pageVars >>

----------------------------------------------------------------------------
(* Specifications *)

NoEnv ==
    [ DB_TABLE |-> Undefined, DB_WORD_COL |-> Undefined, DB_MEANING_COL |-> Undefined,
      DB_AUDIO_COL |-> Undefined, DB_WIKI_COL |-> Undefined ]

\* The database the page and the repository calls are served from
PageStore == { [ name |-> "dict", cols |-> Columns(3) ] }

InitServing ==
    /\ store = PageStore
    /\ env = NoEnv
    /\ startup = "serving"
    /\ META = discoverSchema(PageStore).meta

InitNoCall ==
    /\ search = << >>
    /\ words = << >>
    /\ meaning = << >>
    /\ plan = NoPlan

\* The page before its script has run
InitNoPage ==
    /\ currentWord = NullWord
    /\ detailEl = [ kind |-> "placeholder", word |-> NullWord, audioUrl |-> NULL ]
    /\ detailFetches = {}
    /\ wordListEl = << >>
    /\ listFetches = {}
    /\ searchInput = << >>
    /\ clearShown = FALSE
    /\ timers = {}
    /\ debounceTimer = 0
    /\ lastLoad = [ id |-> 0, q |-> << >>, box |-> << >>, result |-> << >> ]
    /\ players = << >>
    /\ calls = [ load |-> 0, timer |-> 0, select |-> 0 ]

\* The page after its script has run: the listeners are set and loadWords() of the
\* last line awaits its response.  The clear button is shown only while the box
\* holds text, and the box is empty.
InitPage ==
    /\ InitServing
    /\ rows = PageRows
    /\ InitNoCall
    /\ pc = "idle"
    /\ currentWord = NullWord
    /\ detailEl = [ kind |-> "placeholder", word |-> NullWord, audioUrl |-> NULL ]
    /\ detailFetches = {}
    /\ wordListEl = << >>
    /\ listFetches = { [ id |-> 1, q |-> << >> ] }
    /\ searchInput = << >>
    /\ clearShown = FALSE
    /\ timers = {}
    /\ debounceTimer = 0
    /\ lastLoad = [ id |-> 1, q |-> << >>, box |-> << >>, result |-> Pending ]
    /\ players = << >>
    /\ calls = [ load |-> 1, timer |-> 0, select |-> 0 ]

\* The page: the list, the search box and the detail pane
Init == InitPage

Next ==
    \/ ListResponse
    \/ Input
    \/ TimerFire
    \/ ClearClick
    \/ SelectWord
    \/ DetailResponse

Spec == Init /\ [][Next]_vars

\* The page of a user who selects terms and plays their pronunciation
NextAudio ==
    \/ ListResponse
    \/ SelectWord
    \/ DetailResponse
    \/ ClickPlay
    \/ AudioEnded
    \/ AudioError
    \/ PlayNextTimer

SpecAudio == Init /\ [][NextAudio]_vars

\* The start of the server on any store, under any environment
InitSchema ==
    /\ store \in Stores
    /\ env \in Envs
    /\ startup = "boot"
    /\ META = NoMeta
    /\ rows = << >>
    /\ InitNoCall
    /\ InitNoPage
    /\ pc = "idle"

NextSchema == Startup

SpecSchema == InitSchema /\ [][NextSchema]_vars

\* The start of the server on the stores whose schema can be inferred
InitOverride ==
    /\ InitSchema
    /\ ~discoverSchema(store).threw

SpecOverride == InitOverride /\ [][NextSchema]_vars

\* One fetchWords call: any query, on a table holding any term, a NULL and a fixed term
Terms == StringsUpTo(TermAlphabet, MaxTermLen)

Queries == StringsUpTo(TermAlphabet, MaxQueryLen) \ { << >> }

InitWords ==
    /\ InitServing
    /\ \E t \in Terms :
         rows = << [ w |-> t,               m |-> << "m" >>, a |-> NULL ],
                   [ w |-> NULL,            m |-> << "m" >>, a |-> NULL ],
                   [ w |-> << "A", "a" >>,  m |-> << "m" >>, a |-> NULL ] >>
    /\ search \in Queries
    /\ words = << >>
    /\ meaning = << >>
    /\ plan = NoPlan
    /\ InitNoPage
    /\ pc = "fetch"

NextWords == FetchWords

SpecWords == InitWords /\ [][NextWords]_vars

\* One formatMeaning call on any definition
InitRender ==
    /\ InitServing
    /\ rows = PageRows
    /\ search = << >>
    /\ words = << >>
    /\ meaning \in Meanings
    /\ plan = NoPlan
    /\ InitNoPage
    /\ pc = "render"

NextRender == FormatMeaning

SpecRender == InitRender /\ [][NextRender]_vars

----------------------------------------------------------------------------
(* The claims *)

Range(f) == { f[i] : i \in DOMAIN f }

Count(f, x) == Cardinality({ i \in DOMAIN f : f[i] = x })

\* q occurs in s as a run of consecutive characters
Contains(s, q) == \E k \in 0..(Len(s) - Len(q)) : SubSeq(s, k + 1, k + Len(q)) = q

\* C1: once every detail response has arrived, a detail shown in the pane is the
\* detail of currentWord, the term selected last: the response of a superseded
\* selectWord has not overwritten the pane.
C1_SupersededDetailIgnored ==
    (detailFetches = {} /\ detailEl.kind = "detail") => detailEl.word = currentWord

\* C2: at most one audio entry is playing at any time, over all the playback
\* sequences that clicks on the play button have started.
C2_AtMostOnePlaying ==
    Cardinality({ i \in 1..Len(players) : players[i].playing }) <= 1

\* C3: in each playback of a plan of n entries the events are play 0, ended or
\* error 0, play 1, ended or error 1, ...: the entries start in index order, each
\* once, the next only after the one before it ended or failed, and after the
\* last one has ended or failed nothing more is played.
C3_SequentialPlayback ==
    \A i \in 1..Len(players) :
        LET p == players[i]
            n == Len(p.audioUrls)
        IN  /\ Len(p.log) <= 2 * n
            /\ \A k \in 1..Len(p.log) :
                 IF k % 2 = 1
                 THEN p.log[k] = << "play", (k - 1) \div 2 >>
                 ELSE p.log[k][1] \in { "ended", "error" } /\ p.log[k][2] = (k \div 2) - 1
            /\ p.playing <=> (Len(p.log) % 2 = 1)
            /\ p.timer => ~p.playing
            /\ Len(p.log) = 2 * n => p.currentIndex = n

\* C3 witness: a playback of two entries has run to its end, the first entry
\* having failed and the second having ended, and its last timer has fired.
C3_Witness ==
    \E i \in 1..Len(players) :
        /\ Len(players[i].audioUrls) = 2
        /\ Len(players[i].log) = 4
        /\ players[i].log[2] = << "error", 0 >>
        /\ players[i].log[4] = << "ended", 1 >>
        /\ ~players[i].timer

\* C4: at most one debounce timer is pending, and the lookup dispatched last
\* carries the trimmed value the search box held when it was dispatched.
C4_OnlyLatestQueryDispatched ==
    /\ Cardinality(timers) <= 1
    /\ lastLoad.q = Trim(lastLoad.box)

SomeSupplied(e) ==
    Truthy(e.DB_TABLE) \/ Truthy(e.DB_WORD_COL) \/ Truthy(e.DB_MEANING_COL) \/ Truthy(e.DB_AUDIO_COL)

\* C5: after startup, an override naming some but not all of table, term,
\* definition and audio column has been rejected (the process has exited, no
\* binding); one naming all four without the link column has given the binding
\* of the supplied values with wikiCol null.
C5_OverrideValidation ==
    startup # "boot" =>
        /\ (SomeSupplied(env) /\ ~EnvComplete(env)) => (startup = "exited" /\ META = NoMeta)
        /\ (EnvComplete(env) /\ ~Truthy(env.DB_WIKI_COL)) =>
               (startup = "serving" /\ META = [ EnvMeta(env) EXCEPT !.wikiCol = Null ])

\* C6: for a non-empty definition, the placeholder of each segment occurs once
\* in the placeholder-bearing text, each placeholder of that text is the
\* placeholder of a segment, and the html holds one math element per segment,
\* with the formula and mode of that segment.
C6_PlaceholdersMatchSegments ==
    (pc = "rendered" /\ meaning # << >>) =>
        LET reps == plan.replacements
            els == MathElements(plan.html)
        IN  /\ \A i \in 1..Len(reps) : Count(plan.content, placeholder(i - 1)) = 1
            /\ \A k \in 1..Len(plan.content) :
                 plan.content[k] \in PlaceholderSet =>
                     \E i \in 1..Len(reps) : plan.content[k] = placeholder(i - 1)
            /\ Len(els) = Len(reps)
            /\ \A r \in Range(reps) : Count(els, r) = Count(reps, r)

ExampleInline == [ formula |-> << "F" >>, isDisplay |-> FALSE ]

ExampleDisplay == [ formula |-> << "F", " ", "=", " ", "m", "a" >>, isDisplay |-> TRUE ]

\* C7 as stated: for the example the segment sequence is the inline formula F
\* (id 0) and then the display formula F = ma (id 1), with two distinct
\* placeholders in the text.
C7_SegmentsLeftToRight ==
    (pc = "rendered" /\ meaning = Example) =>
        /\ plan.replacements = << ExampleInline, ExampleDisplay >>
        /\ Count(plan.content, placeholder(0)) = 1
        /\ Count(plan.content, placeholder(1)) = 1

\* C7 as amended: for the example the segment sequence is the display formula
\* F = ma (id 0) and then the inline formula F (id 1); the text holds the two
\* placeholders once each, that of the inline formula first, and the math
\* elements of the html are, in document order, F inline and F = ma display.
C7_SegmentsDisplayFirst ==
    (pc = "rendered" /\ meaning = Example) =>
        /\ plan.replacements = << ExampleDisplay, ExampleInline >>
        /\ Count(plan.content, placeholder(0)) = 1
        /\ Count(plan.content, placeholder(1)) = 1
        /\ \E k, l \in 1..Len(plan.content) :
             k < l /\ plan.content[k] = placeholder(1) /\ plan.content[l] = placeholder(0)
        /\ MathElements(plan.html) = << ExampleInline, ExampleDisplay >>

\* C7 witness: the example has been rendered.
C7_Witness ==
    pc = "rendered" /\ meaning = Example /\ Len(plan.replacements) = 2

\* C8: the terms fetchWords returns for a non-empty query are the non-NULL terms
\* of the table that contain the query, letters compared without regard to case
\* and every other character, the wildcards and the backslash too, literally.
C8_SearchIsLiteralSubstring ==
    pc = "fetched" =>
        Range(words) =
            { rows[i].w : i \in { k \in 1..Len(rows) :
                  /\ rows[k].w # NULL
                  /\ Contains(toLowerCase(rows[k].w), toLowerCase(search)) } }

\* C8 witness: a query holding a wildcard or the backslash has returned a term
\* and has left out another term of the table.
C8_Witness ==
    /\ pc = "fetched"
    /\ \E i \in 1..Len(search) : search[i] \in { "%", "_", "\\" }
    /\ words # << >>
    /\ \E k \in 1..Len(rows) : rows[k].w # NULL /\ rows[k].w \notin Range(words)

\* C9: once every list response has arrived, the list shows what the lookup
\* started last returned, and nothing of an older lookup.
C9_SupersededListIgnored ==
    listFetches = {} => wordListEl = lastLoad.result

\* C10: with all four override values supplied the server starts with the
\* binding of the override, whatever the store holds; the start fails on the
\* inference only when no complete override is supplied.
C10_OverrideBypassesInference ==
    /\ (startup # "boot" /\ EnvComplete(env)) => (startup = "serving" /\ META = EnvMeta(env))
    /\ startup = "exited" => ~EnvComplete(env)

====
